---- MODULE Spec2Model ----
(***************************************************************************)
(* OpenAPI document generation of logical/framework/openapi.go.            *)
(*                                                                         *)
(* Strings whose characters matter (patterns, paths, field names, help     *)
(* texts) are sequences of one-character strings.  No pattern of the model *)
(* holds a line break, so the regular expressions' "." matches every       *)
(* character.  An optional value (a Go pointer that may be nil) is a       *)
(* sequence of length 0 or 1.                                              *)
(***************************************************************************)
EXTENDS Integers, Sequences, FiniteSets, TLC

VARIABLES
    \* expandPattern
    pattern,        \* the argument of expandPattern
    paths,          \* the candidate list of the optional-group loop
    idx,            \* the loop index i (1-based)
    replacedPaths,  \* the returned list
    epc,            \* position in expandPattern
    \* documentPaths / documentPath
    backend,        \* the *Backend handed to documentPaths
    doc,            \* doc.Paths
    routeIdx,       \* position of the loop over backend.Paths
    expanded,       \* paths := expandPattern(p.Pattern)
    pathIdx,        \* position of the loop over paths
    pi,             \* the oasPathItem under construction
    remaining,      \* verbs the range over operations has not visited yet
    pc,             \* position in documentPaths
    err,            \* the error documentPaths returns
    slotWrites,     \* how often each of pi.Get, pi.Post, pi.Delete was assigned
    slotFrom        \* the verb whose handler each slot's operation was built from

expandVars == <<pattern, paths, idx, replacedPaths, epc>>
docVars == <<backend, doc, routeIdx, expanded, pathIdx, pi, remaining, pc, err,
             slotWrites, slotFrom>>
vars == <<pattern, paths, idx, replacedPaths, epc, backend, doc, routeIdx,
          expanded, pathIdx, pi, remaining, pc, err, slotWrites, slotFrom>>

----------------------------------------------------------------------------
(* Bounds of the model. *)

MaxLen == 5
MaxSegs == 3
MaxHandlers == 3
MaxRoutes == 3

----------------------------------------------------------------------------
(* Character strings. *)

Min(S) == CHOOSE x \in S : \A y \in S : x <= y
Max(S) == CHOOSE x \in S : \A y \in S : x >= y

Digits == <<"0", "1", "2", "3", "4", "5", "6", "7", "8", "9">>
Upper == <<"A", "B", "C", "D", "E", "F", "G", "H", "I", "J", "K", "L", "M",
           "N", "O", "P", "Q", "R", "S", "T", "U", "V", "W", "X", "Y", "Z">>
Lower == <<"a", "b", "c", "d", "e", "f", "g", "h", "i", "j", "k", "l", "m",
           "n", "o", "p", "q", "r", "s", "t", "u", "v", "w", "x", "y", "z">>

Range(s) == {s[i] : i \in 1..Len(s)}
IndexOf(s, c) == CHOOSE i \in 1..Len(s) : s[i] = c

\* \w of the regular expressions: [0-9A-Za-z_]
IsWord(c) == c \in Range(Digits) \cup Range(Upper) \cup Range(Lower) \cup {"_"}

\* The byte value of a word character, which orders Go strings.
Ord(c) ==
    IF c \in Range(Digits) THEN 47 + IndexOf(Digits, c)
    ELSE IF c \in Range(Upper) THEN 64 + IndexOf(Upper, c)
    ELSE IF c = "_" THEN 95
    ELSE IF c \in Range(Lower) THEN 96 + IndexOf(Lower, c)
    ELSE 0

\* strings.ToLower
ToLowerChar(c) == IF c \in Range(Upper) THEN Lower[IndexOf(Upper, c)] ELSE c
ToLower(s) == [i \in 1..Len(s) |-> ToLowerChar(s[i])]

\* a < b on Go strings (byte-wise lexicographic)
RECURSIVE StrLess(_, _)
StrLess(a, b) ==
    IF b = <<>> THEN FALSE
    ELSE IF a = <<>> THEN TRUE
    ELSE IF Ord(Head(a)) < Ord(Head(b)) THEN TRUE
    ELSE IF Ord(Head(a)) > Ord(Head(b)) THEN FALSE
    ELSE StrLess(Tail(a), Tail(b))

HasPrefixAt(s, i, t) ==
    /\ i + Len(t) - 1 <= Len(s)
    /\ \A k \in 1..Len(t) : s[i + k - 1] = t[k]

\* strings.HasPrefix, strings.HasSuffix
HasPrefix(s, t) == HasPrefixAt(s, 1, t)
HasSuffix(s, t) == Len(t) <= Len(s) /\ HasPrefixAt(s, Len(s) - Len(t) + 1, t)

From(s, i) == SubSeq(s, i, Len(s))

\* strings.Replace(s, old, new, 1)
ReplaceFirst(s, old, new) ==
    LET hits == {i \in 1..Len(s) : HasPrefixAt(s, i, old)}
    IN  IF old = <<>> THEN new \o s
        ELSE IF hits = {} THEN s
        ELSE LET i == Min(hits)
             IN  SubSeq(s, 1, i - 1) \o new \o From(s, i + Len(old))

\* strings.Replace(s, old, new, -1), old not empty
RECURSIVE ReplaceAll(_, _, _)
ReplaceAll(s, old, new) ==
    LET hits == {i \in 1..Len(s) : HasPrefixAt(s, i, old)}
    IN  IF old = <<>> \/ hits = {} THEN s
        ELSE LET i == Min(hits)
             IN  SubSeq(s, 1, i - 1) \o new
                     \o ReplaceAll(From(s, i + Len(old)), old, new)

RECURSIVE Concat(_)
Concat(ss) == IF ss = <<>> THEN <<>> ELSE Head(ss) \o Concat(Tail(ss))

----------------------------------------------------------------------------
(* The regular expressions of lines 128-134, each as the match Go's        *)
(* leftmost-first regexp engine finds.                                      *)

NoMatch == <<>>

\* altRe, \((.*)\|(.*)\) : the first match's two groups.  The match starts at
\* the first "(", the first group is greedy up to the last "|" that a ")"
\* follows, the second up to the last ")".
AltMatch(s) ==
    LET opens == {i \in 1..Len(s) : s[i] = "("}
        closes == {i \in 1..Len(s) : s[i] = ")"}
    IN  IF opens = {} \/ closes = {} THEN NoMatch
        ELSE LET o == Min(opens)
                 c == Max(closes)
                 bars == {i \in (o + 1)..(c - 1) : s[i] = "|"}
             IN  IF bars = {} THEN NoMatch
                 ELSE LET b == Max(bars)
                      IN  <<SubSeq(s, o + 1, b - 1), SubSeq(s, b + 1, c - 1)>>

\* optRe, (?U)\(.*\)\? : FindStringIndex as <<first, last>>, the positions of
\* the match's "(" and of its "?".  The match starts at the first "(" and,
\* ungreedy, ends at the first ")?" after it.
OptMatch(s) ==
    LET opens == {i \in 1..Len(s) : s[i] = "("}
    IN  IF opens = {} THEN NoMatch
        ELSE LET o == Min(opens)
                 ends == {m \in (o + 1)..(Len(s) - 1) :
                             s[m] = ")" /\ s[m + 1] = "?"}
             IN  IF ends = {} THEN NoMatch ELSE <<o, Min(ends) + 1>>

\* The number of \w characters of s from position i on.
RECURSIVE WordRun(_, _)
WordRun(s, i) ==
    IF i <= Len(s) /\ IsWord(s[i]) THEN 1 + WordRun(s, i + 1) ELSE 0

\* The number of characters other than ")" of s from position i on.
RECURSIVE NonCloseRun(_, _)
NonCloseRun(s, i) ==
    IF i <= Len(s) /\ s[i] # ")" THEN 1 + NonCloseRun(s, i + 1) ELSE 0

\* reqdRe, \(?\?P<(\w+)>[^)]*\)? , matched at position i:
\* <<last position, name>> or NoMatch.
ReqdMatchAt(s, i) ==
    LET q == IF i <= Len(s) /\ s[i] = "(" THEN i + 1 ELSE i
        n == WordRun(s, q + 3)
        g == q + 3 + n
    IN  IF /\ HasPrefixAt(s, q, <<"?", "P", "<">>)
           /\ n >= 1
           /\ g <= Len(s)
           /\ s[g] = ">"
        THEN LET r == g + NonCloseRun(s, g + 1)
                 last == IF r + 1 <= Len(s) /\ s[r + 1] = ")" THEN r + 1 ELSE r
             IN  <<last, SubSeq(s, q + 3, g - 1)>>
        ELSE NoMatch

\* reqdRe.FindAllStringSubmatch(s, -1) from position i on: the matches left to
\* right, none overlapping, each <<matched text, name>>.
RECURSIVE ReqdFindAll(_, _)
ReqdFindAll(s, i) ==
    LET starts == {j \in i..Len(s) : ReqdMatchAt(s, j) # NoMatch}
    IN  IF starts = {} THEN <<>>
        ELSE LET j == Min(starts)
                 m == ReqdMatchAt(s, j)
             IN  <<<<SubSeq(s, j, m[1]), m[2]>>>> \o ReqdFindAll(s, m[1] + 1)

\* CleanSuffix left out
CleanSuffixNone(s) == s

\* cleanSuffixRe.ReplaceAllString(s, ""), /\?\$?$ : a final "/?" or "/?$".
CleanSuffix(s) ==
    IF HasSuffix(s, <<"/", "?", "$">>) THEN SubSeq(s, 1, Len(s) - 3)
    ELSE IF HasSuffix(s, <<"/", "?">>) THEN SubSeq(s, 1, Len(s) - 2)
    ELSE s

\* cleanCharsRe.ReplaceAllString(s, ""), [()^$?]
CleanChars(s) == SelectSeq(s, LAMBDA c : c \notin {"(", ")", "^", "$", "?"})

\* pathFieldsRe.FindAllStringSubmatch(s, -1), {(\w+)} : the names, left to
\* right from position i on.
RECURSIVE PathFieldNames(_, _)
PathFieldNames(s, i) ==
    LET ok(j) == /\ s[j] = "{"
                 /\ WordRun(s, j + 1) >= 1
                 /\ j + 1 + WordRun(s, j + 1) <= Len(s)
                 /\ s[j + 1 + WordRun(s, j + 1)] = "}"
        starts == {j \in i..Len(s) : ok(j)}
    IN  IF starts = {} THEN <<>>
        ELSE LET j == Min(starts)
                 n == WordRun(s, j + 1)
             IN  <<SubSeq(s, j + 1, j + n)>> \o PathFieldNames(s, j + n + 2)

----------------------------------------------------------------------------
(* expandPattern *)

\* GenericNameRegex(name) of path.go, as the comment of lines 383-386 gives it.
GenericNameRegex(name) ==
    <<"(", "?", "P", "<">> \o name \o
    <<">", "\\", "w", "(", "(", "[", "\\", "w", "-", ".", "]", "+", ")", "?",
      "\\", "w", ")", "?", ")">>

\* lines 387-393
RegexToRemove ==
    LET base == GenericNameRegex(<<>>)
        gts == {i \in 1..Len(base) : base[i] = ">"}
        cls == {i \in 1..Len(base) : base[i] = ")"}
    IN  IF gts # {} /\ cls # {} /\ Max(cls) > Min(gts)
        THEN SubSeq(base, Min(gts) + 1, Max(cls) - 1)
        ELSE <<>>

\* lines 395-404: the candidates the loop starts from
SeedPaths(p) ==
    LET stripped == ReplaceAll(p, RegexToRemove, <<>>)
        m == AltMatch(stripped)
    IN  IF m # NoMatch THEN <<m[1], m[2]>> ELSE <<stripped>>

\* line 418: the optional element kept, without its parentheses and "?"
InlineOptional(p, m) ==
    SubSeq(p, 1, m[1] - 1) \o SubSeq(p, m[1] + 1, m[2] - 2) \o From(p, m[2] + 1)

\* line 421: the optional element left out
RemoveOptional(p, m) == SubSeq(p, 1, m[1] - 1) \o From(p, m[2] + 1)

\* AfterExpansion without the i--: the expanded candidate is not examined again
AfterExpansionSkip(i) == i + 1

\* lines 408 and 422: the index examined after candidate i was expanded (i--
\* followed by the loop's i++).
AfterExpansion(i) == i

\* lines 415-423: one iteration on a candidate with an optional element
ExpandAt(ps, i) ==
    LET p == ps[i]
        m == OptMatch(p)
    IN  Append([ps EXCEPT ![i] = InlineOptional(p, m)], RemoveOptional(p, m))

\* lines 430-436: each named parameter replaced by {name}
RECURSIVE ReplaceNamed(_, _)
ReplaceNamed(path, result) ==
    IF result = <<>> THEN path
    ELSE ReplaceNamed(
             ReplaceFirst(path, Head(result)[1],
                          <<"{">> \o Head(result)[2] \o <<"}">>),
             Tail(result))

\* lines 429-441: one candidate turned into a returned path
CleanPath(path) ==
    CleanChars(CleanSuffix(ReplaceNamed(path, ReqdFindAll(path, 1))))

\* lines 408-424 run to the end
RECURSIVE OptionalLoop(_, _)
OptionalLoop(ps, i) ==
    IF i > Len(ps) THEN ps
    ELSE IF OptMatch(ps[i]) # NoMatch
         THEN OptionalLoop(ExpandAt(ps, i), AfterExpansion(i))
         ELSE OptionalLoop(ps, i + 1)

\* expandPattern as a function of its argument
ExpandPattern(p) ==
    LET ps == OptionalLoop(SeedPaths(p), 1)
    IN  [k \in 1..Len(ps) |-> CleanPath(ps[k])]

----------------------------------------------------------------------------
(* The patterns expandPattern is run on. *)

Alphabet == {"(", ")", "?", "|", "a"}

\* every string over Alphabet of at most MaxLen characters
ShortPatterns == UNION {[1..n -> Alphabet] : n \in 0..MaxLen}

\* (leases/)?renew : the example of optRe (line 129)
PatRenew ==
    <<"(","l","e","a","s","e","s","/",")","?","r","e","n","e","w">>
\* raw/?$|raw/(?P<path>.+) : an alternation without parentheses
PatRawBare ==
    <<"r","a","w","/","?","$","|","r","a","w","/","(","?","P","<","p","a","t","h",">",".","+",")">>
\* (raw/?$|raw/(?P<path>.+)) : the example of altRe (line 130)
PatRawGroup ==
    <<"(","r","a","w","/","?","$","|","r","a","w","/","(","?","P","<","p","a","t","h",">",".","+",")",")">>
\* (leases/)?renew(/(?P<url_lease_id>.+))? : two optional elements, one holding a named parameter
PatRenewId ==
    <<"(","l","e","a","s","e","s","/",")","?","r","e","n","e","w","(","/","(","?","P","<","u","r","l","_","l","e","a","s","e","_","i","d",">",".","+",")",")","?">>
\* config/(?P<header>\w(([\w-.]+)?\w)?) : a route built with GenericNameRegex
PatGeneric ==
    <<"c","o","n","f","i","g","/","(","?","P","<","h","e","a","d","e","r",">","\\","w","(","(","[","\\","w","-",".","]","+",")","?","\\","w",")","?",")">>
\* (?P<n>.+)/(c)? : a named parameter followed by an optional element
PatNameThenOpt ==
    <<"(","?","P","<","n",">",".","+",")","/","(","c",")","?">>
\* lookup/(?P<prefix>.+?)? : an optional named parameter
PatLookup ==
    <<"l","o","o","k","u","p","/","(","?","P","<","p","r","e","f","i","x",">",".","+","?",")","?">>
\* roles/?$ : an optional final slash
PatRoles ==
    <<"r","o","l","e","s","/","?","$">>

NamedPatterns ==
    {PatRenew, PatRawBare, PatRawGroup, PatRenewId,
     PatGeneric, PatNameThenOpt, PatLookup, PatRoles}

\* Patterns put together from literal texts, optional elements (X)? and named
\* parameters (?P<n>.+), none nested and without alternation.
Lit(t) == [kind |-> "lit", text |-> t]
Opt(t) == [kind |-> "opt", text |-> t]
Req(n) == [kind |-> "req", text |-> n]
Segments ==
    {Lit(<<"a">>), Lit(<<"b", "/">>), Opt(<<"c">>), Opt(<<"d", "/">>),
     Req(<<"n">>)}
SegSeqs == UNION {[1..n -> Segments] : n \in 1..MaxSegs}

SegText(g) ==
    IF g.kind = "lit" THEN g.text
    ELSE IF g.kind = "opt" THEN <<"(">> \o g.text \o <<")", "?">>
    ELSE <<"(", "?", "P", "<">> \o g.text \o <<">", ".", "+", ")">>

Flatten(gs) == Concat([k \in 1..Len(gs) |-> SegText(gs[k])])

SegPatterns == {Flatten(gs) : gs \in SegSeqs}

Patterns == ShortPatterns \cup NamedPatterns \cup SegPatterns

----------------------------------------------------------------------------
(* expandPattern, step by step. *)

DocIdle ==
    /\ backend = [Paths |-> <<>>]
    /\ doc = <<>>
    /\ routeIdx = 0
    /\ expanded = <<>>
    /\ pathIdx = 0
    /\ pi = <<>>
    /\ remaining = {}
    /\ pc = "idle"
    /\ err = <<>>
    /\ slotWrites = <<>>
    /\ slotFrom = <<>>

ExpandInit ==
    /\ pattern \in Patterns
    /\ paths = <<>>
    /\ idx = 0
    /\ replacedPaths = <<>>
    /\ epc = "seed"
    /\ DocIdle

\* lines 380-404
ExpandSeed ==
    /\ epc = "seed"
    /\ paths' = SeedPaths(pattern)
    /\ idx' = 1
    /\ epc' = "loop"
    /\ UNCHANGED <<pattern, replacedPaths>>
    /\ UNCHANGED docVars

\* lines 408-423, the candidate has an optional element
ExpandOptional ==
    /\ epc = "loop"
    /\ idx <= Len(paths)
    /\ OptMatch(paths[idx]) # NoMatch
    /\ paths' = ExpandAt(paths, idx)
    /\ idx' = AfterExpansion(idx)
    /\ UNCHANGED <<pattern, replacedPaths, epc>>
    /\ UNCHANGED docVars

\* lines 408-415, the candidate has none
ExpandAdvance ==
    /\ epc = "loop"
    /\ idx <= Len(paths)
    /\ OptMatch(paths[idx]) = NoMatch
    /\ idx' = idx + 1
    /\ UNCHANGED <<pattern, paths, replacedPaths, epc>>
    /\ UNCHANGED docVars

\* lines 426-443
ExpandReturn ==
    /\ epc = "loop"
    /\ idx > Len(paths)
    /\ replacedPaths' = [k \in 1..Len(paths) |-> CleanPath(paths[k])]
    /\ epc' = "done"
    /\ UNCHANGED <<pattern, paths, idx>>
    /\ UNCHANGED docVars

ExpandNext == ExpandSeed \/ ExpandOptional \/ ExpandAdvance \/ ExpandReturn

ExpandSpec == ExpandInit /\ [][ExpandNext]_vars

----------------------------------------------------------------------------
(* Helpers of documentPath. *)

Nil == <<>>
Some(x) == <<x>>

IsSpace(c) == c \in {" ", "\t", "\n", "\r"}

RECURSIVE TrimLeft(_)
TrimLeft(s) == IF s # <<>> /\ IsSpace(Head(s)) THEN TrimLeft(Tail(s)) ELSE s

RECURSIVE TrimRight(_)
TrimRight(s) ==
    IF s # <<>> /\ IsSpace(s[Len(s)])
    THEN TrimRight(SubSeq(s, 1, Len(s) - 1))
    ELSE s

\* wsRe.ReplaceAllString(s, " "), \s+ : each run of white space becomes one space
RECURSIVE CompressSpace(_)
CompressSpace(s) ==
    IF s = <<>> THEN <<>>
    ELSE IF IsSpace(Head(s))
         THEN <<" ">> \o CompressSpace(TrimLeft(s))
         ELSE <<Head(s)>> \o CompressSpace(Tail(s))

cleanString(s) == CompressSpace(TrimRight(TrimLeft(s)))

\* specialPathMatch: an exact match, or a prefix match of an entry ending in "*"
specialPathMatch(path, specialPaths) ==
    \E k \in 1..Len(specialPaths) :
        LET sp == specialPaths[k]
        IN  \/ sp = path
            \/ /\ HasSuffix(sp, <<"*">>)
               /\ HasPrefix(path, SubSeq(sp, 1, Len(sp) - 1))

FieldTypes ==
    {"TypeString", "TypeNameString", "TypeHeader", "TypeLowerCaseString",
     "TypeInt", "TypeDurationSecond", "TypeBool", "TypeMap", "TypeKVPairs",
     "TypeSlice", "TypeStringSlice", "TypeCommaStringSlice",
     "TypeCommaIntSlice", "TypeInvalid"}

schemaType(b, i, f) == [baseType |-> b, items |-> i, format |-> f]

convertType(t) ==
    IF t \in {"TypeString", "TypeNameString", "TypeHeader"}
        THEN schemaType("string", "", "")
    ELSE IF t = "TypeLowerCaseString" THEN schemaType("string", "", "lowercase")
    ELSE IF t = "TypeInt" THEN schemaType("number", "", "")
    ELSE IF t = "TypeDurationSecond" THEN schemaType("number", "", "seconds")
    ELSE IF t = "TypeBool" THEN schemaType("boolean", "", "")
    ELSE IF t = "TypeMap" THEN schemaType("object", "", "map")
    ELSE IF t = "TypeKVPairs" THEN schemaType("object", "", "kvpairs")
    ELSE IF t = "TypeSlice" THEN schemaType("array", "object", "")
    ELSE IF t \in {"TypeStringSlice", "TypeCommaStringSlice"}
        THEN schemaType("array", "string", "")
    ELSE IF t = "TypeCommaIntSlice" THEN schemaType("array", "number", "")
    ELSE schemaType("", "", "unknown")

\* splitFields.  A *FieldSchema is an optional value: a name of the path that
\* allFields does not hold is a key of pathFields with the value nil.
splitFields(allFields, path) ==
    LET names == Range(PathFieldNames(path, 1))
        inPath == [n \in names |->
                      IF n \in DOMAIN allFields THEN Some(allFields[n]) ELSE Nil]
        others == DOMAIN allFields \ names
        headers == {n \in others : allFields[n].Type = "TypeHeader"}
    IN  [pathFields |-> [n \in names \cup headers |->
                            IF n \in names THEN inPath[n] ELSE Some(allFields[n])],
         bodyFields |-> [n \in others \ headers |-> allFields[n]]]

\* lines 187-205: the parameter of one path or header field
fieldParameter(name, field) ==
    LET header == field.Type = "TypeHeader"
        t == convertType(field.Type)
    IN  [Name |-> name,
         Description |-> cleanString(field.Description),
         In |-> IF header THEN "header" ELSE "path",
         Schema |-> Some([Type |-> t.baseType]),
         Required |-> ~header,
         Deprecated |-> field.Deprecated]

\* parameterLess without strings.ToLower
parameterLessRaw(a, b) == StrLess(a.Name, b.Name)

\* lines 210-212: the less function of the sort
parameterLess(a, b) == StrLess(ToLower(a.Name), ToLower(b.Name))

\* sort.Slice on a slice of fewer than 12 elements is an insertion sort: each
\* element moves left past every element it is less than.
RECURSIVE insertParameter(_, _)
insertParameter(sorted, x) ==
    IF sorted # <<>> /\ parameterLess(x, sorted[Len(sorted)])
    THEN Append(insertParameter(SubSeq(sorted, 1, Len(sorted) - 1), x),
                sorted[Len(sorted)])
    ELSE Append(sorted, x)

RECURSIVE sortParameters(_)
sortParameters(ps) ==
    IF ps = <<>> THEN <<>>
    ELSE insertParameter(sortParameters(SubSeq(ps, 1, Len(ps) - 1)), ps[Len(ps)])

\* The orders in which a range over a map with the keys S may visit them.
Orders(S) ==
    {o \in [1..Cardinality(S) -> S] : \A a, b \in 1..Cardinality(S) :
                                          a # b => o[a] # o[b]}

OpTypes == {"create", "read", "update", "delete", "list"}

\* lines 170-180: the verb -> handler properties mapping of a route.  A
\* handler is modelled by the OperationProperties its Properties() returns; a
\* legacy callback gives a PathOperation with only the Summary set.
routeOperations(p) ==
    IF p.Operations # Nil THEN p.Operations[1]
    ELSE [v \in p.Callbacks |->
            [Summary |-> p.HelpSynopsis, Description |-> <<>>,
             Deprecated |-> FALSE, Unpublished |-> FALSE,
             Examples |-> <<>>, Responses |-> <<>>]]

----------------------------------------------------------------------------
(* One pass of the loop over the operations of a route (lines 216-359). *)

\* lines 217-220
published(props) == ~props.Unpublished

\* lines 222-223
setsCreateSupported(opType) == opType = "create"

\* mergedAway with the precedence reversed: update left to create, read to list
mergedAwayReversed(operations, opType) ==
    \/ opType = "update" /\ "create" \in DOMAIN operations
    \/ opType = "read" /\ "list" \in DOMAIN operations

\* mergedAway without any merging
mergedAwayNever(operations, opType) == FALSE

\* lines 225-228 and 231-234: the handler is left to update or to read
mergedAway(operations, opType) ==
    \/ opType = "create" /\ "update" \in DOMAIN operations
    \/ opType = "list" /\ "read" \in DOMAIN operations

\* The handler's operation is built and put into the path item.
documented(operations, opType) ==
    published(operations[opType]) /\ ~mergedAway(operations, opType)

\* lines 249-263: the schema of one body field
bodyProperty(field) ==
    LET t == convertType(field.Type)
    IN  [Type |-> t.baseType,
         Description |-> cleanString(field.Description),
         Format |-> t.format,
         Deprecated |-> field.Deprecated,
         Items |-> IF t.baseType = "array" THEN Some([Type |-> t.items]) ELSE Nil]

\* lines 242-281.  An interface holding Examples[0].Data is never nil.
requestBody(opType, props, bodyFields) ==
    LET s == [Type |-> "object",
              Properties |-> [n \in DOMAIN bodyFields |-> bodyProperty(bodyFields[n])],
              Example |-> IF Len(props.Examples) > 0
                          THEN Some(props.Examples[1].Data) ELSE Nil]
    IN  IF /\ opType \in {"create", "update"}
           /\ (DOMAIN s.Properties # {} \/ s.Example # Nil)
        THEN Some([Content |-> [m \in {"application/json"} |-> [Schema |-> s]]])
        ELSE Nil

\* listParameter without the case of read beside list
listParameterListOnly(operations, opType) ==
    IF opType = "list"
    THEN <<[Name |-> <<"l", "i", "s", "t">>,
            Description |-> "Return a list if true",
            In |-> "query",
            Schema |-> <<[Type |-> "string"]>>,
            Required |-> FALSE,
            Deprecated |-> FALSE]>>
    ELSE <<>>

\* lines 283-291 (the description without the source's back quotes around
\* true, which a TLA+ string cannot hold)
listParameter(operations, opType) ==
    IF \/ opType = "list"
       \/ opType = "read" /\ "list" \in DOMAIN operations
    THEN <<[Name |-> <<"l", "i", "s", "t">>,
            Description |-> "Return a list if true",
            In |-> "query",
            Schema |-> Some([Type |-> "string"]),
            Required |-> FALSE,
            Deprecated |-> FALSE]>>
    ELSE <<>>

\* lines 293-302
backendTags(backendType) ==
    IF backendType = "TypeLogical" THEN <<"secrets">>
    ELSE IF backendType = "TypeCredential" THEN <<"auth">>
    ELSE <<>>

\* cleanResponse: mapstructure.Decode copies the fields cleanedResponse has, or
\* fails; whether it fails is a property of the response.
cleanResponse(resp) ==
    IF resp.decodes
    THEN [r |-> Some([Data |-> resp.Data, Warnings |-> resp.Warnings]), err |-> Nil]
    ELSE [r |-> Nil, err |-> Some(<<"decode", resp.Data>>)]

\* sanitizeFailed with the error ignored
sanitizeFailedNever(cr) == FALSE

\* line 330
sanitizeFailed(cr) == cr.err # Nil

\* lines 318-343: the examples of one status code, in order
RECURSIVE responseContent(_, _)
responseContent(responses, content) ==
    IF responses = <<>> THEN [content |-> content, err |-> Nil]
    ELSE LET resp == Head(responses)
         IN  IF resp.Example = Nil
             THEN responseContent(Tail(responses), content)
             ELSE LET mediaType == IF resp.MediaType = "" THEN "application/json"
                                   ELSE resp.MediaType
                      cr == cleanResponse(resp.Example[1])
                  IN  IF sanitizeFailed(cr)
                      THEN [content |-> content, err |-> cr.err]
                      ELSE responseContent(
                               Tail(responses),
                               IF mediaType \in DOMAIN content THEN content
                               ELSE [m \in DOMAIN content \cup {mediaType} |->
                                        IF m = mediaType
                                        THEN [Schema |-> [Example |-> cr.r]]
                                        ELSE content[m]])

\* lines 304-349, when no example fails
operationResponses(opType, props) ==
    IF DOMAIN props.Responses = {}
    THEN IF opType = "delete"
         THEN [c \in {"204"} |-> [Description |-> "empty body", Content |-> <<>>]]
         ELSE [c \in {"200"} |-> [Description |-> "OK", Content |-> <<>>]]
    ELSE [c \in DOMAIN props.Responses |->
            [Description |-> IF props.Responses[c] = <<>> THEN ""
                             ELSE props.Responses[c][1].Description,
             Content |-> responseContent(props.Responses[c], <<>>).content]]

\* lines 314-332: the errors the operation may return with; the status codes
\* are visited in the order of a range over a map.
operationErrors(props) ==
    {responseContent(props.Responses[c], <<>>).err : c \in DOMAIN props.Responses}
        \ {Nil}

\* lines 236-349
buildOperation(operations, opType, bodyFields, backendType) ==
    LET props == operations[opType]
    IN  [Summary |-> props.Summary,
         Description |-> props.Description,
         Tags |-> backendTags(backendType),
         Parameters |-> listParameter(operations, opType),
         RequestBody |-> requestBody(opType, props, bodyFields),
         Responses |-> operationResponses(opType, props),
         Deprecated |-> props.Deprecated]

\* lines 351-358
slotOf(opType) ==
    IF opType \in {"create", "update"} THEN "Post"
    ELSE IF opType \in {"read", "list"} THEN "Get"
    ELSE "Delete"

putOperation(item, slot, op) ==
    IF slot = "Post" THEN [item EXCEPT !.Post = Some(op)]
    ELSE IF slot = "Get" THEN [item EXCEPT !.Get = Some(op)]
    ELSE [item EXCEPT !.Delete = Some(op)]

\* One pass of the loop body that does not return an error: the path item
\* after it.
visitOperation(item, operations, opType, bodyFields, backendType) ==
    IF ~published(operations[opType]) THEN item
    ELSE LET flagged == IF setsCreateSupported(opType)
                        THEN [item EXCEPT !.CreateSupported = TRUE]
                        ELSE item
         IN  IF mergedAway(operations, opType) THEN flagged
             ELSE putOperation(flagged, slotOf(opType),
                      buildOperation(operations, opType, bodyFields, backendType))

\* The errors one pass of the loop body may return.
visitErrors(operations, opType) ==
    IF documented(operations, opType)
    THEN {e[1] : e \in operationErrors(operations[opType])}
    ELSE {}

----------------------------------------------------------------------------
(* The backends documentPaths is run on. *)

\* A logical.Response given as an example; decodes tells whether
\* mapstructure.Decode accepts it.
exampleResponse(data, ok) ==
    [Data |-> data, Warnings |-> <<>>, Headers |-> "h", decodes |-> ok]

response(description, mediaType, example) ==
    [Description |-> description, MediaType |-> mediaType, Example |-> example]

VerbLetter(v) ==
    IF v = "create" THEN "c" ELSE IF v = "read" THEN "r"
    ELSE IF v = "update" THEN "u" ELSE IF v = "delete" THEN "d" ELSE "l"

HandlerKinds == {"plain", "rich", "hidden", "broken"}

\* The OperationProperties of a handler of verb v:
\*   plain   nothing but a summary and a description;
\*   rich    deprecated, with a request example and declared responses;
\*   hidden  unpublished, with an example that does not decode;
\*   broken  published, with an example that does not decode.
Handler(v, kind) ==
    [Summary |-> <<VerbLetter(v)>>,
     Description |-> <<VerbLetter(v), IF kind = "rich" THEN "+" ELSE "-">>,
     Deprecated |-> kind = "rich",
     Unpublished |-> kind = "hidden",
     Examples |-> IF kind = "rich" THEN <<[Data |-> "body"]>> ELSE <<>>,
     Responses |->
        IF kind = "plain" THEN <<>>
        ELSE IF kind = "rich"
        THEN [c \in {"200", "404"} |->
                IF c = "200"
                THEN <<response("first", "", Some(exampleResponse("d1", TRUE))),
                       response("second", "", Some(exampleResponse("d2", TRUE)))>>
                ELSE <<response("missing", "text/plain", Nil)>>]
        ELSE IF kind = "hidden"
        THEN [c \in {"200"} |->
                <<response("bad", "", Some(exampleResponse(VerbLetter(v), FALSE)))>>]
        ELSE [c \in {"200"} |->
                <<response("good", "", Some(exampleResponse("d1", TRUE))),
                  response("bad", "", Some(exampleResponse(VerbLetter(v), FALSE)))>>]]

field(type, description, deprecated) ==
    [Type |-> type, Description |-> description, Deprecated |-> deprecated]

Name_k == <<"k">>
Name_h == <<"h">>
Name_Zeta == <<"Z","e","t","a">>
Name_alpha == <<"a","l","p","h","a">>
Name_Mid == <<"M","i","d">>
Name_A == <<"A">>
Name_a == <<"a">>

PatOptional ==
    <<"(","a","/",")","?","b">>
PatTwoNames ==
    <<"(","?","P","<","Z","e","t","a",">",".","+",")","/","(","?","P","<","a","l","p","h","a",">",".","+",")">>
PatNoField ==
    <<"x","/","(","?","P","<","i","d",">",".","+",")">>
PatB == <<"b">>
PatT ==
    <<"t","/","(","?","P","<","a",">",".","+",")">>

HandlerSets == {S \in SUBSET OpTypes : Cardinality(S) <= MaxHandlers}

\* Every choice of at most MaxHandlers handlers, each of every kind, on a
\* route with an optional element, a body field and a header field; and the
\* same route with legacy callbacks.
RichRoutes ==
    LET fields == [n \in {Name_k, Name_h} |->
                      IF n = Name_k
                      THEN field("TypeStringSlice", <<" ", "k", " ", " ", "s">>, TRUE)
                      ELSE field("TypeHeader", <<"h">>, FALSE)]
        base(ops, cbs) == [Pattern |-> PatOptional,
                           HelpSynopsis |-> <<" ", "a", "\t", " ", "b", " ">>,
                           Fields |-> fields,
                           Operations |-> ops,
                           Callbacks |-> cbs]
    IN  {base(Some([v \in S |-> Handler(v, kinds[v])]), {}) :
            S \in HandlerSets, kinds \in [OpTypes -> HandlerKinds]}
        \cup {base(Nil, S) : S \in HandlerSets}

route(pat, fields, ops) ==
    [Pattern |-> pat, HelpSynopsis |-> <<"h">>, Fields |-> fields,
     Operations |-> Some(ops), Callbacks |-> {}]

\* two named parameters, out of order by name
RouteZeta ==
    route(PatTwoNames,
          [n \in {Name_Zeta, Name_alpha} |->
              IF n = Name_Zeta THEN field("TypeString", <<"z">>, FALSE)
              ELSE field("TypeInt", <<"a">>, TRUE)],
          [v \in {"read"} |-> Handler(v, "plain")])

\* a named parameter of the pattern that Fields does not define
RouteNoField ==
    route(PatNoField, <<>>, [v \in {"read"} |-> Handler(v, "plain")])

\* an example that does not decode
RouteBroken ==
    route(PatB, <<>>, [v \in {"update", "delete"} |->
                          Handler(v, IF v = "update" THEN "broken" ELSE "plain")])

\* the same path as RouteBroken
RouteList ==
    route(PatB, <<>>, [v \in {"list", "delete"} |->
                          Handler(v, IF v = "list" THEN "rich" ELSE "hidden")])

\* a named parameter and two header fields, two of the names differing in
\* case only
RouteTies ==
    route(PatT,
          [n \in {Name_a, Name_A, Name_Mid} |->
              IF n = Name_a THEN field("TypeString", n, FALSE)
              ELSE field("TypeHeader", n, FALSE)],
          [v \in {"delete"} |-> Handler(v, "plain")])

SmallRoutes == {RouteZeta, RouteNoField, RouteBroken, RouteList, RouteTies}

RouteLists ==
    {<<r>> : r \in RichRoutes}
        \cup UNION {[1..n -> SmallRoutes] : n \in 1..MaxRoutes}

SpecialPaths ==
    [Root |-> <<<<"a", "/", "*">>>>,
     Unauthenticated |-> <<<<"b">>, <<"x", "/", "*">>>>]

Environments ==
    {[BackendType |-> "TypeLogical", SpecialPaths |-> Nil],
     [BackendType |-> "TypeCredential", SpecialPaths |-> Some(SpecialPaths)],
     [BackendType |-> "TypeUnknown", SpecialPaths |-> Some(SpecialPaths)]}

Backends ==
    {[Paths |-> ps, BackendType |-> e.BackendType, SpecialPaths |-> e.SpecialPaths] :
        ps \in RouteLists, e \in Environments}

----------------------------------------------------------------------------
(* documentPaths and documentPath, step by step. *)

curRoute == backend.Paths[routeIdx]
curPath == expanded[pathIdx]
curOperations == routeOperations(curRoute)
curFields == splitFields(curRoute.Fields, curPath)

\* lines 149-155
sudoPaths == IF backend.SpecialPaths # Nil THEN backend.SpecialPaths[1].Root ELSE <<>>
unauthPaths ==
    IF backend.SpecialPaths # Nil THEN backend.SpecialPaths[1].Unauthenticated
    ELSE <<>>

NoSlots == [s \in {"Get", "Post", "Delete"} |-> 0]
NoSources == [s \in {"Get", "Post", "Delete"} |-> ""]

ExpandIdle ==
    /\ pattern = <<>>
    /\ paths = <<>>
    /\ idx = 0
    /\ replacedPaths = <<>>
    /\ epc = "idle"

Init ==
    /\ backend \in Backends
    /\ doc = <<>>
    /\ routeIdx = 1
    /\ expanded = <<>>
    /\ pathIdx = 0
    /\ pi = Nil
    /\ remaining = {}
    /\ pc = "routes"
    /\ err = Nil
    /\ slotWrites = NoSlots
    /\ slotFrom = NoSources
    /\ ExpandIdle

\* lines 138-139 and 148-158: documentPath is called with the next route
documentPath ==
    /\ pc = "routes"
    /\ routeIdx <= Len(backend.Paths)
    /\ expanded' = ExpandPattern(curRoute.Pattern)
    /\ pathIdx' = 1
    /\ pc' = "paths"
    /\ UNCHANGED <<backend, doc, routeIdx, pi, remaining, err, slotWrites, slotFrom>>
    /\ UNCHANGED expandVars

\* lines 160-212: the path item of the next expanded path, with its sorted
\* parameters; the fields are visited in any order
newPathItem ==
    /\ pc = "paths"
    /\ pathIdx <= Len(expanded)
    /\ \A n \in DOMAIN curFields.pathFields : curFields.pathFields[n] # Nil
    /\ \E order \in Orders(DOMAIN curFields.pathFields) :
          pi' = [Description |-> cleanString(curRoute.HelpSynopsis),
                 Parameters |->
                    sortParameters(
                        [k \in 1..Len(order) |->
                            fieldParameter(order[k],
                                           curFields.pathFields[order[k]][1])]),
                 Sudo |-> specialPathMatch(curPath, sudoPaths),
                 Unauthenticated |-> specialPathMatch(curPath, unauthPaths),
                 CreateSupported |-> FALSE,
                 Get |-> Nil, Post |-> Nil, Delete |-> Nil]
    /\ remaining' = DOMAIN curOperations
    /\ slotWrites' = NoSlots
    /\ slotFrom' = NoSources
    /\ pc' = "ops"
    /\ UNCHANGED <<backend, doc, routeIdx, expanded, pathIdx, err>>
    /\ UNCHANGED expandVars

\* line 192: field.Type of a nil *FieldSchema, a nil pointer dereference
nilFieldPanic ==
    /\ pc = "paths"
    /\ pathIdx <= Len(expanded)
    /\ \E n \in DOMAIN curFields.pathFields : curFields.pathFields[n] = Nil
    /\ pc' = "panic"
    /\ UNCHANGED <<backend, doc, routeIdx, expanded, pathIdx, pi, remaining, err,
                   slotWrites, slotFrom>>
    /\ UNCHANGED expandVars

\* lines 216-359: the loop body on a handler not visited yet, without error
processOperation ==
    /\ pc = "ops"
    /\ \E opType \in remaining :
          /\ visitErrors(curOperations, opType) = {}
          /\ pi' = visitOperation(pi, curOperations, opType,
                                  curFields.bodyFields, backend.BackendType)
          /\ remaining' = remaining \ {opType}
          /\ IF documented(curOperations, opType)
             THEN /\ slotWrites' = [slotWrites EXCEPT ![slotOf(opType)] = @ + 1]
                  /\ slotFrom' = [slotFrom EXCEPT ![slotOf(opType)] = opType]
             ELSE UNCHANGED <<slotWrites, slotFrom>>
    /\ UNCHANGED <<backend, doc, routeIdx, expanded, pathIdx, pc, err>>
    /\ UNCHANGED expandVars

\* lines 329-332 and 139-141: cleanResponse fails, documentPath and
\* documentPaths return its error
sanitizeError ==
    /\ pc = "ops"
    /\ \E opType \in remaining :
          \E e \in visitErrors(curOperations, opType) : err' = e
    /\ pc' = "done"
    /\ UNCHANGED <<backend, doc, routeIdx, expanded, pathIdx, pi, remaining,
                   slotWrites, slotFrom>>
    /\ UNCHANGED expandVars

\* line 361
storePathItem ==
    /\ pc = "ops"
    /\ remaining = {}
    /\ LET key == <<"/">> \o curPath
       IN  doc' = [x \in DOMAIN doc \cup {key} |-> IF x = key THEN pi ELSE doc[x]]
    /\ pathIdx' = pathIdx + 1
    /\ pc' = "paths"
    /\ UNCHANGED <<backend, routeIdx, expanded, pi, remaining, err, slotWrites,
                   slotFrom>>
    /\ UNCHANGED expandVars

\* line 364: documentPath returns nil
documentPathReturn ==
    /\ pc = "paths"
    /\ pathIdx > Len(expanded)
    /\ routeIdx' = routeIdx + 1
    /\ pc' = "routes"
    /\ UNCHANGED <<backend, doc, expanded, pathIdx, pi, remaining, err, slotWrites,
                   slotFrom>>
    /\ UNCHANGED expandVars

\* line 144: documentPaths returns nil
documentPathsReturn ==
    /\ pc = "routes"
    /\ routeIdx > Len(backend.Paths)
    /\ pc' = "done"
    /\ UNCHANGED <<backend, doc, routeIdx, expanded, pathIdx, pi, remaining, err,
                   slotWrites, slotFrom>>
    /\ UNCHANGED expandVars

Next ==
    \/ documentPath
    \/ newPathItem
    \/ nilFieldPanic
    \/ processOperation
    \/ sanitizeError
    \/ storePathItem
    \/ documentPathReturn
    \/ documentPathsReturn

Spec == Init /\ [][Next]_vars

----------------------------------------------------------------------------
(* Properties of expandPattern (checked under ExpandSpec). *)

PathRaw ==
    <<"r","a","w">>
PathRawPath ==
    <<"r","a","w","/","{","p","a","t","h","}">>
PathRawBare ==
    <<"r","a","w","/","|","r","a","w","/","{","p","a","t","h","}">>
SeedRaw ==
    <<"r","a","w","/","?","$">>
SeedRawPath ==
    <<"r","a","w","/","(","?","P","<","p","a","t","h",">",".","+",")">>

HasBar(s) == \E i \in 1..Len(s) : s[i] = "|"

\* C5 as stated: expandPattern applied to raw/?$|raw/(?P<path>.+) returns
\* exactly the paths "raw" and "raw/{path}", none holding a "|".
C5_BareAlternationSplits ==
    (epc = "done" /\ pattern = PatRawBare) =>
        /\ Range(replacedPaths) = {PathRaw, PathRawPath}
        /\ \A k \in 1..Len(replacedPaths) : ~HasBar(replacedPaths[k])

\* C5 amended: expandPattern applied to the alternation in parentheses,
\* (raw/?$|raw/(?P<path>.+)), seeds the two alternatives as separate
\* candidates and returns exactly "raw" and "raw/{path}", each cleaned on its
\* own and none holding a "|"; applied to the alternation without the
\* parentheses it returns the one path "raw/|raw/{path}".
C5_GroupedAlternationSplits ==
    /\ (epc \in {"loop", "done"} /\ pattern = PatRawGroup) =>
            paths = <<SeedRaw, SeedRawPath>>
    /\ (epc = "done" /\ pattern = PatRawGroup) =>
            /\ replacedPaths = <<PathRaw, PathRawPath>>
            /\ \A k \in 1..Len(replacedPaths) : ~HasBar(replacedPaths[k])
    /\ (epc = "done" /\ pattern = PatRawBare) => replacedPaths = <<PathRawBare>>

C5_Witness ==
    epc = "done" /\ pattern = PatRawGroup /\ Len(replacedPaths) = 2

OptPositions(gs) == {k \in 1..Len(gs) : gs[k].kind = "opt"}

\* The path of one choice: the optional elements of keep inlined, the others
\* dropped, every named parameter as {name}.
Chosen(gs, keep) ==
    Concat([k \in 1..Len(gs) |->
               IF gs[k].kind = "lit" THEN gs[k].text
               ELSE IF gs[k].kind = "opt"
                    THEN (IF k \in keep THEN gs[k].text ELSE <<>>)
                    ELSE <<"{">> \o gs[k].text \o <<"}">>])

ExpectedPaths(gs) == {Chosen(gs, keep) : keep \in SUBSET OptPositions(gs)}

SegsOf == [p \in SegPatterns |-> {gs \in SegSeqs : Flatten(gs) = p}]

RECURSIVE Pow2(_)
Pow2(n) == IF n = 0 THEN 1 ELSE 2 * Pow2(n - 1)

PathRenew ==
    <<"r","e","n","e","w">>
PathLeasesRenew ==
    <<"l","e","a","s","e","s","/","r","e","n","e","w">>

\* C6: for a pattern without alternation that holds k optional elements (X)?,
\* none nested, expandPattern returns 2^k paths, one for each choice of
\* keeping or dropping each element; (leases/)?renew gives "renew" and
\* "leases/renew".
C6_OptionalGroupsGiveAllChoices ==
    /\ (epc = "done" /\ pattern \in SegPatterns) =>
            \A gs \in SegsOf[pattern] :
                /\ Len(replacedPaths) = Pow2(Cardinality(OptPositions(gs)))
                /\ Range(replacedPaths) = ExpectedPaths(gs)
    /\ (epc = "done" /\ pattern = PatRenew) =>
            /\ Len(replacedPaths) = 2
            /\ Range(replacedPaths) = {PathRenew, PathLeasesRenew}

\* An optional element (X)? as optRe looks for it: a "(" and, after it, ")?".
HasOptionalElement(p) ==
    \E i \in 1..Len(p), m \in 1..Len(p) :
        i < m /\ m < Len(p) /\ p[i] = "(" /\ p[m] = ")" /\ p[m + 1] = "?"

Opens(p) == Cardinality({i \in 1..Len(p) : p[i] = "("})

RECURSIVE PendingWork(_, _)
PendingWork(ps, i) ==
    IF i > Len(ps) THEN 0
    ELSE (Pow2(Opens(ps[i]) + 1) - 1) + PendingWork(ps, i + 1)

----------------------------------------------------------------------------
(* Properties of documentPaths (checked under Spec). *)

\* The path item is complete: line 361 stores it next.
PathItemComplete == pc = "ops" /\ remaining = {}

Slots == {"Get", "Post", "Delete"}

SameMetadata(op, props) ==
    /\ op.Summary = props.Summary
    /\ op.Description = props.Description
    /\ op.Deprecated = props.Deprecated

HasBoth(a, b) == {a, b} \subseteq DOMAIN curOperations

\* C1 as stated: a route with a create and an update handler gives path items
\* with create-supported set and one post operation carrying the update
\* handler's summary, description and deprecated flag.
C1_CreateUpdateAlwaysPost ==
    (PathItemComplete /\ HasBoth("create", "update")) =>
        /\ pi.CreateSupported
        /\ pi.Post # Nil
        /\ slotWrites["Post"] = 1
        /\ SameMetadata(pi.Post[1], curOperations["update"])

\* C1 amended: for a route with a create and an update handler, create-supported
\* is set exactly when the create handler is not unpublished, and when the
\* update handler is not unpublished there is one post operation, built from
\* the update handler and carrying its summary, description and deprecated
\* flag.
C1_CreateUpdatePublishedPost ==
    (PathItemComplete /\ HasBoth("create", "update")) =>
        /\ pi.CreateSupported = ~curOperations["create"].Unpublished
        /\ ~curOperations["update"].Unpublished =>
              /\ pi.Post # Nil
              /\ slotWrites["Post"] = 1
              /\ slotFrom["Post"] = "update"
              /\ SameMetadata(pi.Post[1], curOperations["update"])

C1_Witness ==
    /\ PathItemComplete
    /\ HasBoth("create", "update")
    /\ ~curOperations["create"].Unpublished
    /\ ~curOperations["update"].Unpublished
    /\ curOperations["create"].Deprecated # curOperations["update"].Deprecated
    /\ pi.CreateSupported
    /\ pi.Post # Nil

HasListParameter(op) ==
    \E k \in 1..Len(op.Parameters) :
        /\ op.Parameters[k].Name = <<"l", "i", "s", "t">>
        /\ op.Parameters[k].In = "query"

ReadDocumentedAsGet ==
    /\ pi.Get # Nil
    /\ slotWrites["Get"] = 1
    /\ slotFrom["Get"] = "read"
    /\ SameMetadata(pi.Get[1], curOperations["read"])
    /\ HasListParameter(pi.Get[1])
    /\ \A s \in Slots : slotFrom[s] # "list"

\* C2 as stated: a route with a list and a read handler gives path items with
\* one get operation, built from the read handler and carrying the query
\* parameter list, and no operation built from the list handler.
C2_ListReadAlwaysGet ==
    (PathItemComplete /\ HasBoth("list", "read")) => ReadDocumentedAsGet

\* C2 amended: the same, for a route whose read handler is not unpublished.
C2_ListReadPublishedGet ==
    (PathItemComplete /\ HasBoth("list", "read")
        /\ ~curOperations["read"].Unpublished) => ReadDocumentedAsGet

C2_Witness ==
    /\ PathItemComplete
    /\ HasBoth("list", "read")
    /\ ~curOperations["read"].Unpublished
    /\ ~curOperations["list"].Unpublished
    /\ pi.Get # Nil

\* What the handlers contribute to a path item.
OpsView(item) ==
    [failed |-> FALSE, CreateSupported |-> item.CreateSupported,
     Get |-> item.Get, Post |-> item.Post, Delete |-> item.Delete]

FailedView ==
    [failed |-> TRUE, CreateSupported |-> FALSE,
     Get |-> Nil, Post |-> Nil, Delete |-> Nil]

VerbOrder == <<"create", "read", "update", "delete", "list">>

\* The loop over operations run in the order VerbOrder, from verb k on.
RECURSIVE AssembleFrom(_, _, _)
AssembleFrom(item, operations, k) ==
    IF k > Len(VerbOrder) THEN item
    ELSE AssembleFrom(
             IF VerbOrder[k] \in DOMAIN operations
             THEN visitOperation(item, operations, VerbOrder[k],
                                 curFields.bodyFields, backend.BackendType)
             ELSE item,
             operations, k + 1)

\* What the loop gives for the current path with the handlers operations.
AssembledView(operations) ==
    IF \E v \in DOMAIN operations : visitErrors(operations, v) # {}
    THEN FailedView
    ELSE OpsView(AssembleFrom(
                    [pi EXCEPT !.CreateSupported = FALSE, !.Get = Nil,
                               !.Post = Nil, !.Delete = Nil],
                    operations, 1))

Without(operations, v) == [w \in DOMAIN operations \ {v} |-> operations[w]]

\* C3: an unpublished handler puts no operation into the path item, and the
\* operations and the create-supported flag are those of the same route
\* without that handler.
C3_UnpublishedLeavesSiblingsAlone ==
    PathItemComplete =>
        \A v \in DOMAIN curOperations :
            curOperations[v].Unpublished =>
                /\ \A s \in Slots : slotFrom[s] # v
                /\ OpsView(pi) = AssembledView(Without(curOperations, v))

UndefinedNames(p, path) == Range(PathFieldNames(path, 1)) \ DOMAIN p.Fields

\* C4: a route whose expanded path has a placeholder {name} without a field
\* definition is documented without failure, with a path parameter name that
\* has no schema.
C4_UndefinedPlaceholderIsSchemaless ==
    /\ pc # "panic"
    /\ PathItemComplete =>
          \A n \in UndefinedNames(curRoute, curPath) :
              \E k \in 1..Len(pi.Parameters) :
                  /\ pi.Parameters[k].Name = n
                  /\ pi.Parameters[k].In = "path"
                  /\ pi.Parameters[k].Schema = Nil

LowerLeq(a, b) == ~StrLess(ToLower(b), ToLower(a))

SortedByLowerName(ps) ==
    \A k \in 1..(Len(ps) - 1) : LowerLeq(ps[k].Name, ps[k + 1].Name)

KeyZetaAlpha ==
    <<"/","{","Z","e","t","a","}","/","{","a","l","p","h","a","}">>

\* C7: the Parameters of every path item of the document are in ascending
\* order of their lower-cased names, in whatever order the fields were
\* visited; Zeta and alpha come out as alpha, Zeta.
C7_ParametersSorted ==
    /\ \A key \in DOMAIN doc : SortedByLowerName(doc[key].Parameters)
    /\ KeyZetaAlpha \in DOMAIN doc =>
          [k \in 1..Len(doc[KeyZetaAlpha].Parameters) |->
              doc[KeyZetaAlpha].Parameters[k].Name] = <<Name_alpha, Name_Zeta>>

C7_Witness ==
    /\ KeyZetaAlpha \in DOMAIN doc
    /\ \E key \in DOMAIN doc :
          /\ Len(doc[key].Parameters) = 3
          /\ doc[key].Parameters[1].Name = Name_A
          /\ doc[key].Parameters[2].Name = Name_a

\* The errors of the examples of a handler that do not decode.
FailingExamples(props) ==
    UNION {{<<"decode", props.Responses[c][j].Example[1].Data>> :
               j \in {j \in 1..Len(props.Responses[c]) :
                         /\ props.Responses[c][j].Example # Nil
                         /\ ~props.Responses[c][j].Example[1].decodes}} :
           c \in DOMAIN props.Responses}

\* The handler of verb v is one the loop builds an operation from.
BeingDocumented(operations, v) ==
    /\ ~operations[v].Unpublished
    /\ ~(v = "create" /\ "update" \in DOMAIN operations)
    /\ ~(v = "list" /\ "read" \in DOMAIN operations)

C8_Step ==
    /\ (err = Nil /\ err' # Nil) =>
          /\ pc = "ops"
          /\ pc' = "done"
          /\ doc' = doc
          /\ routeIdx' = routeIdx
          /\ \E v \in DOMAIN curOperations :
                /\ BeingDocumented(curOperations, v)
                /\ err' \in FailingExamples(curOperations[v])
    /\ doc' # doc =>
          \A v \in DOMAIN curOperations :
              BeingDocumented(curOperations, v) =>
                  FailingExamples(curOperations[v]) = {}
    /\ pc = "done" =>
          (pc' = "done" /\ doc' = doc /\ err' = err /\ routeIdx' = routeIdx)

\* C8: when cleanResponse fails on an example of a handler being documented,
\* documentPath returns that error at once, the path item of the path in
\* work is not stored, documentPaths returns the error without going on to a
\* later route, and the entries stored before stay as they were; no path
\* item is stored for a path whose documented handlers have such an example.
C8_SanitizeErrorAborts == [][C8_Step]_vars

C8_Witness ==
    /\ pc = "done"
    /\ err # Nil
    /\ doc # <<>>
    /\ routeIdx < Len(backend.Paths)

\* C9: the operations and the create-supported flag of a path item are the
\* same for every order in which the handlers are visited, and none of the
\* three slots is assigned more than once.
C9_OrderIndependent ==
    /\ \A s \in Slots : slotWrites[s] <= 1
    /\ PathItemComplete => OpsView(pi) = AssembledView(curOperations)

C9_Witness ==
    /\ PathItemComplete
    /\ HasBoth("create", "update")
    /\ Cardinality(DOMAIN curOperations) >= 3
    /\ pi.CreateSupported
    /\ slotFrom["Post"] = "update"
    /\ slotWrites["Get"] + slotWrites["Delete"] = 1

====
